---- MODULE Spec2Model ----
(***************************************************************************)
(* Model of the two Docker Compose wrapper scripts of convex-poc:          *)
(*   src/deploy.py          ("root":    DeployManager + main)              *)
(*   src/scripts/deploy.py  ("scripts": run_command, deploy_* + main)      *)
(* A run is: parse the command line, build the invocation(s), run each as  *)
(* a child process and wait for it, map the result to the exit code.       *)
(* The external tool is the environment: a spawn may fail (binary not      *)
(* found, other OS error), a running child exits with any code, and in the *)
(* root script the user may interrupt while a child is running.            *)
(***************************************************************************)
EXTENDS Integers, Sequences, FiniteSets, TLC

\* ------------------------------------------------------------------ bounds
MaxArgs == 3        \* longest command line (tokens after the program name)
MaxExit == 2        \* largest exit code of the external tool

None == "<none>"
NotExited == -1

\* Tokens a command line is drawn from.
PlainTokens == {"up", "down", "restart", "status", "logs", "backend"}
DashTokens == {"-f", "--file", "-v", "--volumes", "--follow", "--no-detach", "-h"}
Tokens == PlainTokens \cup DashTokens

\* str.startswith("-") on the tokens of the alphabet
StartsWithDash(tok) == tok \in DashTokens

RECURSIVE SeqsUpTo(_)
SeqsUpTo(n) ==
    IF n = 0 THEN {<< >>}
    ELSE LET S == SeqsUpTo(n - 1)
         IN S \cup {Append(s, t) : s \in {x \in S : Len(x) = n - 1}, t \in Tokens}

Scripts == {"root", "scripts"}

\* ------------------------------------------------------ argument grammar
choices(script) ==
    IF script = "root" THEN {"up", "down", "restart", "status", "logs"}
    ELSE {"up", "down", "status", "logs"}

\* What an option string means to the script's parser.
OptionKind(script, tok) ==
    IF tok = "-h" THEN "help"
    ELSE IF script = "root"
         THEN CASE tok \in {"-f", "--file"} -> "file"
                [] tok \in {"-v", "--volumes"} -> "volumes"
                [] tok = "--follow" -> "follow"
                [] OTHER -> "unknown"
         ELSE CASE tok = "--no-detach" -> "no_detach"
                [] tok \in {"-f", "--follow"} -> "follow"
                [] OTHER -> "unknown"

Namespace0 ==
    [command |-> None, file |-> "docker-compose.yml", volumes |-> FALSE,
     follow |-> FALSE, no_detach |-> FALSE, extras |-> FALSE]

ParseResult(st, ns) == [status |-> st, ns |-> ns]

\* argparse's left-to-right scan of argv[1:]: the first plain token is the
\* positional (checked against choices at once), later plain tokens and
\* unknown options are "unrecognized arguments" (reported after the scan),
\* -h exits at once, a value option takes the next token only if it is plain.
RECURSIVE ParseFrom(_, _, _, _)
ParseFrom(script, a, i, ns) ==
    IF i > Len(a)
    THEN IF ns.command = None \/ ns.extras
         THEN ParseResult("error", ns)
         ELSE ParseResult("ok", ns)
    ELSE LET tok == a[i] IN
         IF ~StartsWithDash(tok)
         THEN IF ns.command = None
              THEN IF tok \in choices(script)
                   THEN ParseFrom(script, a, i + 1, [ns EXCEPT !.command = tok])
                   ELSE ParseResult("error", ns)
              ELSE ParseFrom(script, a, i + 1, [ns EXCEPT !.extras = TRUE])
         ELSE LET k == OptionKind(script, tok) IN
              CASE k = "help" -> ParseResult("help", ns)
                [] k = "file" ->
                     IF i + 1 <= Len(a) /\ ~StartsWithDash(a[i + 1])
                     THEN ParseFrom(script, a, i + 2, [ns EXCEPT !.file = a[i + 1]])
                     ELSE ParseResult("error", ns)
                [] k = "volumes" ->
                     ParseFrom(script, a, i + 1, [ns EXCEPT !.volumes = TRUE])
                [] k = "follow" ->
                     ParseFrom(script, a, i + 1, [ns EXCEPT !.follow = TRUE])
                [] k = "no_detach" ->
                     ParseFrom(script, a, i + 1, [ns EXCEPT !.no_detach = TRUE])
                [] OTHER ->
                     ParseFrom(script, a, i + 1, [ns EXCEPT !.extras = TRUE])

parse_args_lenient(script, argv) ==
    LET r == ParseFrom(script, Tail(argv), 1, Namespace0)
    IN IF r.status = "error"
       THEN ParseResult("ok", [r.ns EXCEPT !.command =
                IF r.ns.command = None THEN "status" ELSE r.ns.command])
       ELSE r

\* parser.parse_args() on sys.argv[1:]
parse_args(script, argv) == ParseFrom(script, Tail(argv), 1, Namespace0)

\* ------------------------------------------------------------ invocations
\* DeployManager.__init__: self.base_cmd
base_cmd(compose_file) == <<"docker", "compose", "-f", compose_file>>

up_cmd(compose_file, detached) ==
    base_cmd(compose_file) \o <<"up">> \o (IF detached THEN <<"-d">> ELSE << >>)

down_cmd_keep_volumes(compose_file, volumes) == base_cmd(compose_file) \o <<"down">>

down_cmd(compose_file, volumes) ==
    base_cmd(compose_file) \o <<"down">> \o (IF volumes THEN <<"-v">> ELSE << >>)

restart_cmd(compose_file) == base_cmd(compose_file) \o <<"restart">>

status_cmd(compose_file) == base_cmd(compose_file) \o <<"ps">>

logs_cmd(compose_file, service, follow) ==
    base_cmd(compose_file) \o <<"logs">>
        \o (IF follow THEN <<"-f">> ELSE << >>)
        \o (IF service # None THEN <<service>> ELSE << >>)

\* main, action "logs": the service name is taken from the last element of
\* sys.argv (program name included) when it does not start with "-".
logs_service(argv) ==
    IF Len(argv) > 2 /\ ~StartsWithDash(argv[Len(argv)])
    THEN argv[Len(argv)]
    ELSE None

\* main: manager.up(detached=True)
up_detached == TRUE

\* src/scripts/deploy.py
deploy_up_cmd(detach) ==
    <<"docker", "compose", "up">> \o (IF detach THEN <<"-d">> ELSE << >>)

deploy_down_cmd == <<"docker", "compose", "down">>

deploy_status_cmd == <<"docker", "compose", "ps">>

deploy_logs_cmd(service, follow) ==
    <<"docker", "compose", "logs">>
        \o (IF follow THEN <<"-f">> ELSE << >>)
        \o (IF service # None THEN <<service>> ELSE << >>)

\* ------------------------------------------------------------------ state
VARIABLES
    script,     \* which of the two scripts runs
    sys_argv,   \* sys.argv: program name, then the user's tokens
    pc,         \* "main" | "dispatch" | "call" | "running" | "status" | "done"
    args,       \* result of parse_args
    cmd,        \* the invocation about to be run / running
    check,      \* check= argument of the pending subprocess.run
    cont,       \* what the caller does when the run returns: "status" | "return"
    calls,      \* invocations issued so far (every subprocess.run call)
    outcomes,   \* how each issued invocation ended
    active,     \* number of live child processes
    stderr,     \* messages written to the error stream
    exitCode    \* the program's exit code, NotExited while it runs

vars == <<script, sys_argv, pc, args, cmd, check, cont, calls, outcomes,
          active, stderr, exitCode>>

Init ==
    /\ script \in Scripts
    /\ sys_argv \in {<<"deploy.py">> \o a : a \in SeqsUpTo(MaxArgs)}
    /\ pc = "main"
    /\ args = ParseResult("none", Namespace0)
    /\ cmd = << >>
    /\ check = FALSE
    /\ cont = "return"
    /\ calls = << >>
    /\ outcomes = << >>
    /\ active = 0
    /\ stderr = << >>
    /\ exitCode = NotExited

\* ----------------------------------------------------- running a command
\* How one subprocess.run call ended.
Outcome(kind, rc, chk) == [kind |-> kind, rc |-> rc, check |-> chk]

DeployManager_run_command_unchecked(chk, o) ==
    CASE o.kind = "exit" -> "returned"
      [] o.kind = "notfound" -> "returned"
      [] o.kind = "interrupt" -> "KeyboardInterrupt"
      [] OTHER -> "Exception"

\* DeployManager._run_command: what the call does for the caller.
DeployManager_run_command(chk, o) ==
    CASE o.kind = "exit" ->
             IF chk /\ o.rc # 0 THEN "DockerComposeError" ELSE "returned"
      [] o.kind = "notfound" -> "DockerComposeError"
      [] o.kind = "interrupt" -> "KeyboardInterrupt"
      [] OTHER -> "Exception"

\* DeployManager._run_command: the message of the DockerComposeError
DockerComposeError_message(o) ==
    IF o.kind = "notfound" THEN "Error: Docker Compose not found"
    ELSE "Error: Command failed"

main_exit_generic(exc) == 1

\* main: the except clauses, exception -> sys.exit code
main_exit(exc) ==
    CASE exc = "DockerComposeError" -> 1
      [] exc = "KeyboardInterrupt" -> 130
      [] OTHER -> 1

\* main: the except clauses, exception -> text on sys.stderr
main_stderr(exc, o) ==
    CASE exc = "DockerComposeError" -> DockerComposeError_message(o)
      [] exc = "KeyboardInterrupt" -> "Operation cancelled by user."
      [] OTHER -> "Unexpected error"

\* src/scripts/deploy.py run_command: True iff the command succeeded
\* (subprocess.run is always called with check=True)
run_command(o) == o.kind = "exit" /\ o.rc = 0

\* src/scripts/deploy.py main: sys.exit(0 if success else 1); an exception
\* that run_command does not catch ends the interpreter with code 1
scripts_exit(o) ==
    IF o.kind \in {"exit", "notfound"}
    THEN (IF run_command(o) THEN 0 ELSE 1)
    ELSE 1

\* argparse: parser.error exits with 2, -h exits with 0
parse_exit(st) == IF st = "help" THEN 0 ELSE 2

ExitCodeAfter_child(scr, chk, o) ==
    IF o.kind = "exit" /\ (chk \/ scr = "scripts") THEN o.rc
    ELSE IF scr = "root"
    THEN LET r == DeployManager_run_command(chk, o)
         IN IF r = "returned" THEN 0 ELSE main_exit(r)
    ELSE scripts_exit(o)

\* The exit code of a run whose last invocation ended with o.
ExitCodeAfter(scr, chk, o) ==
    IF scr = "root"
    THEN LET r == DeployManager_run_command(chk, o)
         IN IF r = "returned" THEN 0 ELSE main_exit(r)
    ELSE scripts_exit(o)

\* The error-stream output of a run whose last invocation ended with o.
StderrAfter(scr, chk, o) ==
    IF scr = "root"
    THEN LET r == DeployManager_run_command(chk, o)
         IN IF r = "returned" THEN << >> ELSE <<main_stderr(r, o)>>
    ELSE IF o.kind = "oserror" THEN <<"Traceback">> ELSE << >>

\* The caller goes on (to its next statement) after this outcome.
Returned(scr, chk, o) ==
    IF scr = "root" THEN DeployManager_run_command(chk, o) = "returned"
    ELSE o.kind \in {"exit", "notfound"}

\* ---------------------------------------------------------------- actions
\* main: args = parser.parse_args()
main_parse_args ==
    /\ pc = "main"
    /\ LET r == parse_args(script, sys_argv) IN
       /\ args' = r
       /\ IF r.status = "ok"
          THEN /\ pc' = "dispatch"
               /\ UNCHANGED <<stderr, exitCode>>
          ELSE /\ pc' = "done"
               /\ exitCode' = parse_exit(r.status)
               /\ stderr' = IF r.status = "error" THEN <<"usage">> ELSE << >>
    /\ UNCHANGED <<script, sys_argv, cmd, check, cont, calls, outcomes, active>>

Start(c, chk, k) ==
    /\ cmd' = c
    /\ check' = chk
    /\ cont' = k
    /\ pc' = "call"
    /\ UNCHANGED <<script, sys_argv, args, calls, outcomes, active, stderr, exitCode>>

AtDispatch(scr, command) ==
    pc = "dispatch" /\ script = scr /\ args.ns.command = command

next_after_restart_only(command) == IF command = "restart" THEN "status" ELSE "return"

next_after_always(command) == "status"

\* After a successful up/restart the manager shows the status.
next_after(command) == IF command \in {"up", "restart"} THEN "status" ELSE "return"

DeployManager_up ==
    /\ AtDispatch("root", "up")
    /\ Start(up_cmd(args.ns.file, up_detached), TRUE, next_after("up"))

DeployManager_down ==
    /\ AtDispatch("root", "down")
    /\ Start(down_cmd(args.ns.file, args.ns.volumes), TRUE, next_after("down"))

DeployManager_restart ==
    /\ AtDispatch("root", "restart")
    /\ Start(restart_cmd(args.ns.file), TRUE, next_after("restart"))

DeployManager_status_checked ==
    /\ AtDispatch("root", "status") \/ (pc = "status" /\ script = "root")
    /\ Start(status_cmd(args.ns.file), TRUE, "return")

DeployManager_status ==
    /\ AtDispatch("root", "status") \/ (pc = "status" /\ script = "root")
    /\ Start(status_cmd(args.ns.file), FALSE, "return")

DeployManager_logs ==
    /\ AtDispatch("root", "logs")
    /\ Start(logs_cmd(args.ns.file, logs_service(sys_argv), args.ns.follow),
             FALSE, next_after("logs"))

deploy_up ==
    /\ AtDispatch("scripts", "up")
    /\ Start(deploy_up_cmd(~args.ns.no_detach), TRUE, "return")

deploy_down ==
    /\ AtDispatch("scripts", "down")
    /\ Start(deploy_down_cmd, TRUE, "return")

deploy_status ==
    /\ AtDispatch("scripts", "status")
    /\ Start(deploy_status_cmd, TRUE, "return")

\* main calls deploy_logs(follow=True) or deploy_logs(): never a service
deploy_logs ==
    /\ AtDispatch("scripts", "logs")
    /\ Start(deploy_logs_cmd(None, args.ns.follow), TRUE, "return")

\* The run ends (or goes on) after the pending invocation ended with o.
Conclude(o) ==
    /\ outcomes' = Append(outcomes, o)
    /\ IF Returned(script, check, o) /\ cont = "status"
       THEN /\ pc' = "status"
            /\ UNCHANGED <<stderr, exitCode>>
       ELSE /\ pc' = "done"
            /\ exitCode' = ExitCodeAfter(script, check, o)
            /\ stderr' = stderr \o StderrAfter(script, check, o)

\* subprocess.run: the child process is created
Spawn ==
    /\ pc = "call"
    /\ calls' = Append(calls, cmd)
    /\ active' = active + 1
    /\ pc' = "running"
    /\ UNCHANGED <<script, sys_argv, args, cmd, check, cont, outcomes, stderr, exitCode>>

\* subprocess.run raises FileNotFoundError (kind "notfound") or another
\* OSError (kind "oserror"): no child exists
SpawnFails(kind) ==
    /\ pc = "call"
    /\ calls' = Append(calls, cmd)
    /\ Conclude(Outcome(kind, -1, check))
    /\ UNCHANGED <<script, sys_argv, args, cmd, check, cont, active>>

\* subprocess.run returns: the child has terminated with code rc
ChildExit(rc) ==
    /\ pc = "running"
    /\ active' = active - 1
    /\ Conclude(Outcome("exit", rc, check))
    /\ UNCHANGED <<script, sys_argv, args, cmd, check, cont, calls>>

\* Ctrl-C while subprocess.run waits: run kills and reaps the child, then
\* KeyboardInterrupt reaches main's handler (src/deploy.py only; the other
\* script installs no handler and its interrupted runs are not modelled)
KeyboardInterrupt ==
    /\ pc = "running"
    /\ script = "root"
    /\ active' = active - 1
    /\ Conclude(Outcome("interrupt", -1, check))
    /\ UNCHANGED <<script, sys_argv, args, cmd, check, cont, calls>>

Next ==
    \/ main_parse_args
    \/ DeployManager_up
    \/ DeployManager_down
    \/ DeployManager_restart
    \/ DeployManager_status
    \/ DeployManager_logs
    \/ deploy_up
    \/ deploy_down
    \/ deploy_status
    \/ deploy_logs
    \/ Spawn
    \/ SpawnFails("notfound")
    \/ SpawnFails("oserror")
    \/ \E rc \in 0..MaxExit : ChildExit(rc)
    \/ KeyboardInterrupt

Spec == Init /\ [][Next]_vars

TypeOK ==
    /\ script \in Scripts
    /\ pc \in {"main", "dispatch", "call", "running", "status", "done"}
    /\ active \in 0..1
    /\ exitCode \in {NotExited, 0, 1, 2, 130}
    /\ Len(outcomes) <= Len(calls)

\* ------------------------------------------------------------- properties
Done == pc = "done"
Accepted == args.status = "ok"
Root(command) == script = "root" /\ Accepted /\ args.ns.command = command
UserArgs == Tail(sys_argv)
Given(flags) == \E i \in 1..Len(UserArgs) : UserArgs[i] \in flags
Exited(o, rc) == o.kind = "exit" /\ o.rc = rc
Failed(o) == o.kind = "notfound" \/ (o.kind = "exit" /\ o.rc # 0)
Compose(file, rest) == <<"docker", "compose", "-f", file>> \o rest
Subcommand(c) == c[5]
Last(sq) == sq[Len(sq)]

\* C1: root script, up and restart: the first invocation is "up -d" (resp.
\* "restart"); a second invocation exists only once the first has ended with
\* exit code 0 and it is "ps"; a finished run whose first invocation exited 0
\* issued exactly these two; if every invocation exited 0 the exit code is 0.
C1_StartThenStatus ==
    \A command \in {"up", "restart"} :
        Root(command) =>
            LET first == IF command = "up" THEN <<"up", "-d">> ELSE <<"restart">> IN
            /\ Len(calls) >= 1 => calls[1] = Compose(args.ns.file, first)
            /\ Len(calls) >= 2 =>
                   /\ Len(outcomes) >= 1 /\ Exited(outcomes[1], 0)
                   /\ calls[2] = Compose(args.ns.file, <<"ps">>)
            /\ (Done /\ Len(outcomes) >= 1 /\ Exited(outcomes[1], 0)) => Len(calls) = 2
            /\ (Done /\ \A i \in 1..Len(outcomes) : Exited(outcomes[i], 0)) => exitCode = 0
            /\ Len(calls) <= 2

C1_Witness ==
    /\ Root("restart") /\ Done /\ exitCode = 0
    /\ calls = <<Compose("docker-compose.yml", <<"restart">>),
                 Compose("docker-compose.yml", <<"ps">>)>>
    /\ Len(outcomes) = 2 /\ Exited(outcomes[1], 0) /\ Exited(outcomes[2], 0)

\* C2: root script, up and restart: once the first invocation has failed
\* (binary not found, or non-zero exit) the run is over, "ps" was never
\* issued, and the exit code is non-zero.
C2_FailureShortCircuits ==
    \A command \in {"up", "restart"} :
        (Root(command) /\ Len(outcomes) >= 1 /\ Failed(outcomes[1])) =>
            /\ Len(calls) = 1
            /\ Done
            /\ exitCode \notin {0, NotExited}

C2_Witness ==
    /\ Root("up") /\ Done /\ Len(outcomes) = 1 /\ Exited(outcomes[1], 2)
    /\ Len(calls) = 1 /\ exitCode = 1

\* The actions each script accepts, and the token argparse binds to the
\* positional: the first plain token that is not the value of -f/--file
\* (only the root script has an option that takes a value).
AcceptedActions(scr) ==
    IF scr = "root" THEN {"up", "down", "restart", "status", "logs"}
    ELSE {"up", "down", "status", "logs"}

RECURSIVE PositionalAction(_, _, _)
PositionalAction(scr, a, i) ==
    IF i > Len(a) THEN None
    ELSE IF scr = "root" /\ a[i] \in {"-f", "--file"} THEN PositionalAction(scr, a, i + 2)
    ELSE IF a[i] \in DashTokens THEN PositionalAction(scr, a, i + 1)
    ELSE a[i]

\* C3: both scripts: when the positional action of the command line is not
\* an accepted action, no child process is ever launched and the run never
\* gets past argument parsing.
C3_BadActionSpawnsNothing ==
    LET action == PositionalAction(script, UserArgs, 1) IN
    (action # None /\ action \notin AcceptedActions(script)) =>
        /\ calls = << >>
        /\ active = 0
        /\ pc \in {"main", "done"}
        /\ Done => exitCode \in {0, 2} /\ (exitCode = 0 => Given({"-h"}))

C3_Witness ==
    /\ script = "scripts" /\ UserArgs = <<"restart">>
    /\ Done /\ exitCode = 2 /\ calls = << >>

C3_WitnessRoot ==
    /\ script = "root" /\ UserArgs = <<"-v", "backend">>
    /\ Done /\ exitCode = 2 /\ calls = << >>

\* C4 as stated: root script: whenever an invocation fails (binary not
\* found, or non-zero exit), the finished run has reported on the error
\* stream and its exit code is non-zero.
C4_EveryFailureIsFatal ==
    (script = "root" /\ Done /\ \E i \in 1..Len(outcomes) : Failed(outcomes[i])) =>
        /\ exitCode # 0
        /\ stderr # << >>

\* C4 amended: root script: up, down and restart run with check on, ps and
\* logs with check off.  A binary that is not found, on any invocation, and
\* a non-zero exit of a checked invocation are reported on the error stream
\* and end the run with exit code 1; a non-zero exit of ps or logs is not
\* reported and the run ends with exit code 0.
C4_CheckedFailureIsFatal ==
    script = "root" =>
        \A i \in 1..Len(outcomes) :
            LET o == outcomes[i] IN
            /\ o.check = (Subcommand(calls[i]) \in {"up", "down", "restart"})
            /\ o.kind = "notfound" =>
                   Done /\ exitCode = 1 /\ stderr = <<"Error: Docker Compose not found">>
            /\ (o.kind = "exit" /\ o.rc # 0 /\ o.check) =>
                   Done /\ exitCode = 1 /\ stderr = <<"Error: Command failed">>
            /\ (o.kind = "exit" /\ o.rc # 0 /\ ~o.check) =>
                   Done /\ exitCode = 0 /\ stderr = << >>

C4_Witness ==
    /\ Root("status") /\ Done /\ Len(outcomes) = 1 /\ Exited(outcomes[1], 1)
    /\ exitCode = 0 /\ stderr = << >>

C4_WitnessChecked ==
    /\ Root("down") /\ Done /\ Len(outcomes) = 1 /\ Exited(outcomes[1], 1)
    /\ exitCode = 1 /\ stderr = <<"Error: Command failed">>

\* C5 as stated: both scripts: a run that ends because the tool exited with
\* non-zero code c on a checked invocation exits with c itself, and a run
\* that ends because the binary was not found exits with one fixed code.
C5_ChildCodePreserved ==
    (Done /\ Len(outcomes) >= 1) =>
        LET o == Last(outcomes) IN
        /\ (o.kind = "exit" /\ o.rc # 0 /\ o.check) => exitCode = o.rc
        /\ o.kind = "notfound" => exitCode = 1

\* C5 amended: both scripts: a run that ends because the tool exited with a
\* non-zero code on a checked invocation (every invocation of
\* src/scripts/deploy.py; up, down, restart of src/deploy.py) exits with 1
\* whatever the child's code was, and a run that ends because the binary was
\* not found exits with the same code 1, whatever the action: the two
\* failure kinds are not distinguished by the exit code.
C5_FailureExitsOne ==
    (Done /\ Len(outcomes) >= 1) =>
        LET o == Last(outcomes) IN
        /\ script = "scripts" => o.check
        /\ (o.kind = "exit" /\ o.rc # 0 /\ o.check) => exitCode = 1
        /\ o.kind = "notfound" => exitCode = 1

C5_Witness ==
    /\ Done /\ script = "scripts" /\ Len(outcomes) = 1
    /\ Exited(outcomes[1], 2) /\ exitCode = 1

C5_WitnessNotFound ==
    /\ Done /\ Root("logs") /\ Len(outcomes) = 1
    /\ outcomes[1].kind = "notfound" /\ exitCode = 1

\* C6 as stated: root script: every finished run has an exit code in
\* {0, 1, 130}.
C6_ExitCodes ==
    (script = "root" /\ Done) => exitCode \in {0, 1, 130}

\* C6 amended: root script: every finished run has an exit code in
\* {0, 1, 2, 130}: 2 when the command line is rejected (nothing was
\* invoked), 0 for -h; otherwise, by the last invocation: 130 when it was
\* interrupted (and nothing is invoked after it), 1 when the binary was not
\* found, another OS error occurred, or a checked invocation (up, down,
\* restart) exited non-zero, and 0 in every other case, a non-zero exit of
\* ps or logs included.
C6_ExitCodesWithUsage ==
    (script = "root" /\ Done) =>
        /\ exitCode \in {0, 1, 2, 130}
        /\ Len(calls) = Len(outcomes)
        /\ exitCode = 2 <=> args.status = "error"
        /\ args.status \in {"error", "help"} <=> calls = << >>
        /\ args.status = "help" => exitCode = 0
        /\ \A i \in 1..Len(outcomes) :
               outcomes[i].kind = "interrupt" => i = Len(outcomes)
        /\ Len(outcomes) >= 1 =>
               LET o == Last(outcomes)
                   checked == Subcommand(Last(calls)) \in {"up", "down", "restart"}
               IN exitCode = CASE o.kind = "interrupt" -> 130
                               [] o.kind \in {"notfound", "oserror"} -> 1
                               [] OTHER -> IF checked /\ o.rc # 0 THEN 1 ELSE 0

C6_Witness ==
    /\ script = "root" /\ Done /\ exitCode = 2
    /\ UserArgs = <<"logs", "backend", "--follow">>

C6_WitnessInterrupt ==
    /\ Root("up") /\ Done /\ exitCode = 130
    /\ Len(calls) = 1 /\ outcomes[1].kind = "interrupt"

\* The tokens of the command line that are neither options, nor the value
\* of -f/--file, nor the action: what the user supplied as a service name.
RECURSIVE SuppliedService(_, _, _)
SuppliedService(a, i, seenAction) ==
    IF i > Len(a) THEN << >>
    ELSE IF a[i] \in {"-f", "--file"} THEN SuppliedService(a, i + 2, seenAction)
    ELSE IF a[i] \in DashTokens THEN SuppliedService(a, i + 1, seenAction)
    ELSE IF ~seenAction THEN SuppliedService(a, i + 1, TRUE)
    ELSE <<a[i]>> \o SuppliedService(a, i + 1, seenAction)

\* C7: root script, accepted logs command line: the invocation is
\* "docker compose -f <file> logs", then "-f" iff --follow was given, then
\* the service name the user supplied and nothing else: never the action
\* token, never the value of another flag.
C7_LogsTokens ==
    (Root("logs") /\ Len(calls) >= 1) =>
        calls[1] = Compose(args.ns.file,
                           <<"logs">>
                           \o (IF Given({"--follow"}) THEN <<"-f">> ELSE << >>)
                           \o SuppliedService(UserArgs, 1, FALSE))

\* C8: root script, accepted down command line: the one invocation is
\* "docker compose -f <file> down" with "-v" appended iff -v/--volumes was
\* given; if the tool exits 0 the exit code is 0.
C8_DownTokens ==
    (Root("down") /\ Len(calls) >= 1) =>
        /\ calls = <<Compose(args.ns.file,
                             <<"down">> \o (IF Given({"-v", "--volumes"})
                                            THEN <<"-v">> ELSE << >>))>>
        /\ (Done /\ Exited(outcomes[1], 0)) => exitCode = 0

C8_Witness ==
    /\ script = "root" /\ UserArgs = <<"down", "-v">> /\ Done /\ exitCode = 0
    /\ calls = <<<<"docker", "compose", "-f", "docker-compose.yml", "down", "-v">>>>

C8_WitnessNoVolumes ==
    /\ script = "root" /\ UserArgs = <<"down">> /\ Done /\ exitCode = 0
    /\ calls = <<<<"docker", "compose", "-f", "docker-compose.yml", "down">>>>

Contains(sq, tok) == \E i \in 1..Len(sq) : sq[i] = tok

\* An up command line: the action up, with or without --no-detach.
UpLine ==
    /\ PositionalAction(script, UserArgs, 1) = "up"
    /\ \A i \in 1..Len(UserArgs) : UserArgs[i] \in {"up", "--no-detach"}
    /\ Cardinality({i \in 1..Len(UserArgs) : UserArgs[i] = "up"}) = 1

\* C9: both scripts: a finished run of an up command line has issued an up
\* invocation, which contains "-d" iff --no-detach was not given.
C9_DetachFlag ==
    (UpLine /\ Done) =>
        /\ Len(calls) >= 1
        /\ Contains(calls[1], "up")
        /\ Contains(calls[1], "-d") <=> ~Given({"--no-detach"})

\* C10: root script: at most one child process is alive at any time, an
\* invocation is issued only when every earlier one has ended, no child
\* outlives the run, at most two invocations are issued, and a finished
\* accepted run has issued exactly one for down, status and logs and one or
\* two for up and restart.
C10_OneChildAtMostTwoCalls ==
    script = "root" =>
        /\ active \in {0, 1}
        /\ Len(calls) = Len(outcomes) + active
        /\ pc = "call" => active = 0
        /\ Done => active = 0
        /\ Len(calls) <= 2
        /\ (Done /\ Accepted) =>
               IF args.ns.command \in {"down", "status", "logs"}
               THEN Len(calls) = 1
               ELSE Len(calls) \in {1, 2}

C10_Witness ==
    /\ Root("up") /\ pc = "running" /\ active = 1
    /\ Len(calls) = 2 /\ Len(outcomes) = 1

C10_WitnessSingle ==
    /\ Root("logs") /\ Done /\ Len(calls) = 1 /\ active = 0

====
